---- MODULE Spec2Model ----
(***************************************************************************)
(* brume: the command line of a CloudFormation stack manager.              *)
(*                                                                         *)
(* Two entry points are modelled: the package command line                 *)
(* (src/brume/cli.py, prog = "cli") and the older single-file script       *)
(* (src/brume.py, prog = "script").  One behaviour is one invocation of    *)
(* one command.  Every call a command makes to a collaborator (Template,   *)
(* Stack, bucket_exists, send_assets) is appended to `log`.                *)
(*                                                                         *)
(* brume.template, brume.stack, brume.assets and brume.boto_client are not *)
(* part of the sources at hand; their behaviour is taken from the          *)
(* specification of the repository (sections 4.1 to 4.4 and 7).            *)
(***************************************************************************)
EXTENDS Integers, Sequences, FiniteSets, TLC

\* Bounds of the model.
MaxTemplates == 2   \* template files on disk
MaxPolls == 2       \* event polls while the stack is still in progress
MaxPage == 2        \* events that one poll returns

VARIABLES
    \* the invocation and its environment, fixed for the whole run
    prog,          \* "cli" (brume/cli.py) or "script" (brume.py)
    cmd,           \* the command invoked
    files,         \* template files on disk: files[k] is TRUE iff file k is a valid template
    hasAssets,     \* 'assets' in conf
    bucket,        \* what bucket_exists(region, s3_bucket) answers
    stack0,        \* status of the remote stack when the command starts
    uploadFailAt,  \* the upload() call that raises (0: none does)
    transferOK,    \* FALSE iff a file transfer of send_assets fails
    callOutcome,   \* what the remote service answers to the transition call
    remoteOutcome, \* how the remote service ends a transition it accepted
    \* the run
    pc,            \* position in the command
    templates,     \* the list returned by collect_templates
    i,             \* index of the next template of the running for loop
    error,         \* the local variable `error`
    log,           \* the calls made so far, in order
    exitCode,      \* exit status of the process (read when pc = "done")
    stack,         \* status of the remote stack
    polls,         \* event polls made by tail
    stackEvents,   \* the event log of the stack, kept by the remote service
    emitted,       \* the events that tail has rendered, in order
    since,         \* the watermark of tail
    refetched,     \* a poll has returned an event again
    \* side-by-side comparison of two runs
    phase,         \* 1: first run, 2: second run from the same initial state
    prevLog,       \* log of the first run
    prevStack      \* remote stack status the first run left

env == <<prog, files, hasAssets, bucket, stack0, uploadFailAt, transferOK,
         callOutcome, remoteOutcome>>
run == <<pc, templates, i, error, log, exitCode, stack, polls>>
tailer == <<stackEvents, emitted, since, refetched>>
pair == <<phase, prevLog, prevStack>>
vars == <<env, cmd, run, tailer, pair>>

CliCommands == {"create", "update", "deploy", "delete", "validate", "upload",
                "status", "outputs", "parameters"}
ScriptCommands == {"create", "update", "deploy", "delete", "events"}
TransitionCommands == {"create", "update", "deploy", "delete"}

\* conf['assets'] of the configuration file
assets_config == [local_path |-> "assets", s3_bucket |-> "bucket", s3_path |-> "prefix"]

\* One call to a collaborator: the operation, the template it is about
\* (0: none), its result and its arguments.
Event(op, t, res, arg) == [op |-> op, t |-> t, res |-> res, arg |-> arg]

FileSets == UNION {[1..n -> BOOLEAN] : n \in 0..MaxTemplates}

\* glob(local_path/*ext) turned into one Template per file
collect_templates(fs) == [k \in 1..Len(fs) |-> k]

\* ---------------------------------------------------------------------
\* The remote provisioning service and brume.Stack
\* ---------------------------------------------------------------------
InProgress(s) == s \in {"CREATE_IN_PROGRESS", "UPDATE_IN_PROGRESS", "DELETE_IN_PROGRESS"}

\* a slip of Terminal: a stack that is not found does not end the tail
Terminal_but_absent(s) == ~InProgress(s) /\ s # "ABSENT"

\* the statuses that end the tail: complete, failed, or stack not found
Terminal(s) == ~InProgress(s)

\* the answer of the service to a transition call
CallResult(op, s, o) ==
    IF o = "error" THEN "error"
    ELSE IF op = "CreateStack" THEN (IF s = "ABSENT" THEN "ok" ELSE "error")
    ELSE IF op = "UpdateStack" THEN
        (IF s = "ABSENT" THEN "error" ELSE IF o = "noupdates" THEN "noupdates" ELSE "ok")
    ELSE "ok"

\* the status of the stack once the service accepted the call
Accepted(op, s) ==
    IF op = "CreateStack" THEN "CREATE_IN_PROGRESS"
    ELSE IF op = "UpdateStack" THEN "UPDATE_IN_PROGRESS"
    ELSE IF s = "ABSENT" THEN "ABSENT" ELSE "DELETE_IN_PROGRESS"

\* the terminal status the service drives the stack to
Settled(s, o) ==
    IF s = "CREATE_IN_PROGRESS" THEN (IF o = "COMPLETE" THEN "CREATE_COMPLETE" ELSE "ROLLBACK_COMPLETE")
    ELSE IF s = "UPDATE_IN_PROGRESS" THEN (IF o = "COMPLETE" THEN "UPDATE_COMPLETE" ELSE "UPDATE_ROLLBACK_COMPLETE")
    ELSE IF s = "DELETE_IN_PROGRESS" THEN (IF o = "COMPLETE" THEN "ABSENT" ELSE "DELETE_FAILED")
    ELSE s

\* one event of the stack: its identifier and its timestamp
StackEvent(id, ts) == [id |-> id, ts |-> ts]

\* the timestamp of the latest event of the log evs
LastTs(evs) == IF evs = <<>> THEN 0 ELSE evs[Len(evs)].ts

\* the event log of a stack of status s before the command: a stack that
\* exists has the event of its completion
InitialEvents(s) == IF s = "ABSENT" THEN <<>> ELSE <<StackEvent(1, 1)>>

\* the commands run among any template files and with or without an
\* assets section: those that read them, and delete, which never does;
\* what the other commands never read is left at one value
ReadsTemplates(p, c) ==
    \/ p = "cli" /\ c \in {"create", "update", "deploy", "validate", "upload"}
    \/ c = "delete"
ReadsAssets(p, c) ==
    \/ p = "cli" /\ c \in {"create", "update", "deploy", "upload"}
    \/ c = "delete"
Uploads(p, c) == p = "cli" /\ c \in {"create", "update", "deploy", "upload"}

Init ==
    /\ prog \in {"cli", "script"}
    /\ cmd \in (IF prog = "cli" THEN CliCommands ELSE ScriptCommands)
    /\ files \in (IF ReadsTemplates(prog, cmd) THEN FileSets ELSE {<<>>})
    /\ hasAssets \in (IF ReadsAssets(prog, cmd) THEN BOOLEAN ELSE {FALSE})
    /\ bucket \in (IF Uploads(prog, cmd) THEN BOOLEAN ELSE {FALSE})
    /\ stack0 \in {"ABSENT", "CREATE_COMPLETE"}
    /\ uploadFailAt \in (IF Uploads(prog, cmd) THEN 0..Len(files) ELSE {0})
    /\ transferOK \in (IF Uploads(prog, cmd) THEN BOOLEAN ELSE {TRUE})
    /\ callOutcome \in (IF cmd \in TransitionCommands
                         THEN {"ok", "error", "noupdates"} ELSE {"ok"})
    /\ remoteOutcome \in (IF cmd \in TransitionCommands
                           THEN {"COMPLETE", "FAILED"} ELSE {"COMPLETE"})
    /\ pc = "start"
    /\ templates = <<>>
    /\ i = 1
    /\ error = FALSE
    /\ log = <<>>
    /\ exitCode = 0
    /\ stack = stack0
    /\ polls = 0
    /\ stackEvents = InitialEvents(stack0)
    /\ emitted = <<>>
    /\ since = 0
    /\ refetched = FALSE
    /\ phase = 1
    /\ prevLog = <<>>
    /\ prevStack = stack0

\* ---------------------------------------------------------------------
\* brume.Template
\* ---------------------------------------------------------------------
\* Template.validate(): invalidity is reported in the result, never raised
validate_result(t) == IF files[t] THEN "valid" ELSE "invalid"

\* Template.upload(): the k-th upload() call of the run; a failure of the
\* object store is raised
upload_result(k) == IF k = uploadFailAt THEN "error" ELSE "ok"

\* ---------------------------------------------------------------------
\* brume/cli.py
\* ---------------------------------------------------------------------
\* a slip of calls_validate_and_upload: delete prepares the templates too
calls_validate_and_upload_also_delete(p, c) ==
    p = "cli" /\ c \in {"create", "update", "deploy", "delete"}

\* a slip of calls_validate_and_upload: deploy goes straight to the stack
calls_validate_and_upload_but_deploy(p, c) == p = "cli" /\ c \in {"create", "update"}

\* the handlers that start with validate_and_upload(ctx.region, ctx.config)
calls_validate_and_upload(p, c) == p = "cli" /\ c \in {"create", "update", "deploy"}

\* a slip of vau_error: `error = not t.validate()`, the last template decides
vau_error_last(e, res) == res = "invalid"

\* `if not t.validate(): error = True`
vau_error(e, res) == e \/ res = "invalid"

\* exit(1), or an exception nobody catches: the process ends with status 1
Abort == pc' = "done" /\ exitCode' = 1

\* a slip of process_assets: `if 'assets' not in conf: return` is left out
process_assets_without_section(l) ==
    IF bucket
    THEN l \o <<Event("bucket_exists", 0, "true", <<assets_config.s3_bucket>>),
                Event("send_assets", 0, IF transferOK THEN "ok" ELSE "failed",
                      <<assets_config.local_path, assets_config.s3_bucket,
                        assets_config.s3_path>>)>>
    ELSE l \o <<Event("bucket_exists", 0, "false", <<assets_config.s3_bucket>>)>>

\* a slip of process_assets: the answer of bucket_exists is not looked at
process_assets_always_sends(l) ==
    IF ~hasAssets THEN l
    ELSE l \o <<Event("bucket_exists", 0, IF bucket THEN "true" ELSE "false",
                      <<assets_config.s3_bucket>>),
                Event("send_assets", 0, IF transferOK THEN "ok" ELSE "failed",
                      <<assets_config.local_path, assets_config.s3_bucket,
                        assets_config.s3_path>>)>>

\* process_assets(region, conf): the calls it makes, appended to l
process_assets(l) ==
    IF ~hasAssets THEN l
    ELSE IF bucket
         THEN l \o <<Event("bucket_exists", 0, "true", <<assets_config.s3_bucket>>),
                     Event("send_assets", 0, IF transferOK THEN "ok" ELSE "failed",
                           <<assets_config.local_path, assets_config.s3_bucket,
                             assets_config.s3_path>>)>>
         ELSE l \o <<Event("bucket_exists", 0, "false", <<assets_config.s3_bucket>>)>>

\* validate_and_upload, line 221-222
vau_collect ==
    /\ pc = "start"
    /\ calls_validate_and_upload(prog, cmd)
    /\ templates' = collect_templates(files)
    /\ error' = FALSE
    /\ i' = 1
    /\ pc' = "vau_validate"
    /\ UNCHANGED <<env, cmd, log, exitCode, stack, polls, tailer, pair>>

\* a slip of vau_validate: one loop validates a template and uploads it
\* at once if it is valid
vau_validate_uploads ==
    /\ pc = "vau_validate"
    /\ i <= Len(templates)
    /\ LET res == validate_result(templates[i]) IN
        /\ log' = log \o <<Event("validate", templates[i], res, <<>>)>>
                      \o (IF res = "valid"
                          THEN <<Event("upload", templates[i], "ok", <<>>)>>
                          ELSE <<>>)
        /\ error' = vau_error(error, res)
    /\ i' = i + 1
    /\ UNCHANGED <<env, cmd, pc, templates, exitCode, stack, polls, tailer, pair>>

\* validate_and_upload, one turn of the first loop
vau_validate ==
    /\ pc = "vau_validate"
    /\ i <= Len(templates)
    /\ LET res == validate_result(templates[i]) IN
        /\ log' = Append(log, Event("validate", templates[i], res, <<>>))
        /\ error' = vau_error(error, res)
    /\ i' = i + 1
    /\ UNCHANGED <<env, cmd, pc, templates, exitCode, stack, polls, tailer, pair>>

\* a slip of vau_exit: `if error or not templates: exit(1)`
vau_exit_on_empty ==
    /\ pc = "vau_validate"
    /\ i > Len(templates)
    /\ IF error \/ templates = <<>>
       THEN Abort /\ i' = i
       ELSE pc' = "vau_upload" /\ i' = 1 /\ exitCode' = exitCode
    /\ UNCHANGED <<env, cmd, templates, error, log, stack, polls, tailer, pair>>

\* a slip of vau_exit: the `if error: exit(1)` is left out
vau_exit_forgotten ==
    /\ pc = "vau_validate"
    /\ i > Len(templates)
    /\ pc' = "vau_upload"
    /\ i' = 1
    /\ UNCHANGED <<env, cmd, templates, error, log, exitCode, stack, polls, tailer, pair>>

\* validate_and_upload, `if error: exit(1)` after the first loop
vau_exit ==
    /\ pc = "vau_validate"
    /\ i > Len(templates)
    /\ IF error
       THEN Abort /\ i' = i
       ELSE pc' = "vau_upload" /\ i' = 1 /\ exitCode' = exitCode
    /\ UNCHANGED <<env, cmd, templates, error, log, stack, polls, tailer, pair>>

\* validate_and_upload, one turn of the second loop
vau_upload ==
    /\ pc = "vau_upload"
    /\ i <= Len(templates)
    /\ LET res == upload_result(i) IN
        /\ log' = Append(log, Event("upload", templates[i], res, <<>>))
        /\ IF res = "error"
           THEN Abort /\ i' = i
           ELSE pc' = pc /\ i' = i + 1 /\ exitCode' = exitCode
    /\ UNCHANGED <<env, cmd, templates, error, stack, polls, tailer, pair>>

\* validate_and_upload, `process_assets(region, conf)` after the second loop
vau_process_assets ==
    /\ pc = "vau_upload"
    /\ i > Len(templates)
    /\ log' = process_assets(log)
    /\ pc' = "transition"
    /\ UNCHANGED <<env, cmd, templates, i, error, exitCode, stack, polls, tailer, pair>>

\* the validate command, line 168-169
validate_collect ==
    /\ pc = "start"
    /\ prog = "cli"
    /\ cmd = "validate"
    /\ templates' = collect_templates(files)
    /\ error' = FALSE
    /\ i' = 1
    /\ pc' = "validate"
    /\ UNCHANGED <<env, cmd, log, exitCode, stack, polls, tailer, pair>>

\* a slip of validate_step: the loop stops at the first invalid template
validate_step_short ==
    /\ pc = "validate"
    /\ i <= Len(templates)
    /\ LET res == validate_result(templates[i]) IN
        /\ log' = Append(log, Event("validate", templates[i], res, <<>>))
        /\ error' = (error \/ res = "invalid")
        /\ IF res = "invalid"
           THEN Abort /\ i' = i
           ELSE pc' = pc /\ i' = i + 1 /\ exitCode' = exitCode
    /\ UNCHANGED <<env, cmd, templates, stack, polls, tailer, pair>>

\* the validate command, one turn of the loop
validate_step ==
    /\ pc = "validate"
    /\ i <= Len(templates)
    /\ LET res == validate_result(templates[i]) IN
        /\ log' = Append(log, Event("validate", templates[i], res, <<>>))
        /\ error' = (error \/ res = "invalid")
    /\ i' = i + 1
    /\ UNCHANGED <<env, cmd, pc, templates, exitCode, stack, polls, tailer, pair>>

\* a slip of validate_exit: the `if error: exit(1)` is left out
validate_exit_silent ==
    /\ pc = "validate"
    /\ i > Len(templates)
    /\ pc' = "done"
    /\ UNCHANGED <<env, cmd, templates, i, error, log, exitCode, stack, polls, tailer, pair>>

\* the validate command, `if error: exit(1)`
validate_exit ==
    /\ pc = "validate"
    /\ i > Len(templates)
    /\ pc' = "done"
    /\ exitCode' = (IF error THEN 1 ELSE 0)
    /\ UNCHANGED <<env, cmd, templates, i, error, log, stack, polls, tailer, pair>>

\* the upload command, line 181 and the call of collect_templates of line 182
upload_process_assets ==
    /\ pc = "start"
    /\ prog = "cli"
    /\ cmd = "upload"
    /\ log' = process_assets(log)
    /\ templates' = collect_templates(files)
    /\ i' = 1
    /\ pc' = "upload"
    /\ UNCHANGED <<env, cmd, error, exitCode, stack, polls, tailer, pair>>

\* the upload command, one element of the list of line 182
upload_step ==
    /\ pc = "upload"
    /\ i <= Len(templates)
    /\ LET res == upload_result(i) IN
        /\ log' = Append(log, Event("upload", templates[i], res, <<>>))
        /\ IF res = "error"
           THEN Abort /\ i' = i
           ELSE pc' = pc /\ i' = i + 1 /\ exitCode' = exitCode
    /\ UNCHANGED <<env, cmd, templates, error, stack, polls, tailer, pair>>

\* the upload command returns
upload_return ==
    /\ pc = "upload"
    /\ i > Len(templates)
    /\ pc' = "done"
    /\ UNCHANGED <<env, cmd, templates, i, error, log, exitCode, stack, polls, tailer, pair>>

\* ---------------------------------------------------------------------
\* The transition call and the tail: brume/cli.py line 72, 80, 88, 96 and
\* brume.py line 24-53
\* ---------------------------------------------------------------------
\* the command is about to call a method of the stack: after
\* validate_and_upload in the cli, first thing otherwise
AtTransition ==
    \/ pc = "transition"
    \/ /\ pc = "start"
       /\ cmd \in TransitionCommands
       /\ ~calls_validate_and_upload(prog, cmd)

\* where the command goes once the stack method and the tail are over:
\* the cli's deploy goes on with ctx.stack.outputs()
after_stack(p, c) == IF p = "cli" /\ c = "deploy" THEN "outputs" ELSE "done"

\* a slip of after_call: the error of the transition call is caught and
\* the command goes on
after_call_swallowed(p, c, res) ==
    IF p = "script" THEN "tail"
    ELSE IF res \in {"ok", "error"} THEN "tail"
    ELSE after_stack(p, c)

\* where the command goes after the transition call answered res: an
\* error is raised and ends the command; the script then calls
\* stack.tail(); the cli's Stack tails a transition the service accepted
after_call(p, c, res) ==
    IF res = "error" THEN "done"
    ELSE IF p = "script" THEN "tail"
    ELSE IF res = "ok" THEN "tail"
    ELSE after_stack(p, c)

\* a slip of stack_call: the answer "no updates to perform" is not told
\* from an error
stack_call_no_updates_raised(op, pre) ==
    LET res == CallResult(op, stack, callOutcome) IN
    /\ log' = log \o pre \o <<Event(op, 0, res, <<>>)>>
    /\ stack' = IF res = "ok" THEN Accepted(op, stack) ELSE stack
    /\ pc' = IF res = "noupdates" THEN "done" ELSE after_call(prog, cmd, res)
    /\ exitCode' = IF res \in {"error", "noupdates"} THEN 1 ELSE exitCode
    /\ stackEvents' = IF res = "ok" /\ Accepted(op, stack) # stack
                      THEN Append(stackEvents,
                                  StackEvent(Len(stackEvents) + 1, LastTs(stackEvents) + 1))
                      ELSE stackEvents
    /\ UNCHANGED <<env, cmd, templates, i, error, polls, emitted, since, refetched, pair>>

\* a transition call op, preceded by the calls pre
stack_call(op, pre) ==
    LET res == CallResult(op, stack, callOutcome) IN
    /\ log' = log \o pre \o <<Event(op, 0, res, <<>>)>>
    /\ stack' = IF res = "ok" THEN Accepted(op, stack) ELSE stack
    /\ pc' = after_call(prog, cmd, res)
    /\ exitCode' = IF res = "error" THEN 1 ELSE exitCode
    /\ stackEvents' = IF res = "ok" /\ Accepted(op, stack) # stack
                      THEN Append(stackEvents,
                                  StackEvent(Len(stackEvents) + 1, LastTs(stackEvents) + 1))
                      ELSE stackEvents
    /\ UNCHANGED <<env, cmd, templates, i, error, polls, emitted, since, refetched, pair>>

\* stack.create()
stack_create == AtTransition /\ cmd = "create" /\ stack_call("CreateStack", <<>>)

\* stack.update()
stack_update == AtTransition /\ cmd = "update" /\ stack_call("UpdateStack", <<>>)

\* stack.create_or_update(): query the status; absent: create, present: update
stack_create_or_update ==
    /\ AtTransition
    /\ cmd = "deploy"
    /\ stack_call(IF stack = "ABSENT" THEN "CreateStack" ELSE "UpdateStack",
                  <<Event("DescribeStackStatus", 0, stack, <<>>)>>)

\* stack.delete()
stack_delete == AtTransition /\ cmd = "delete" /\ stack_call("DeleteStack", <<>>)

\* the remote service carries an accepted transition to its end
remote_progress ==
    /\ InProgress(stack)
    /\ stack' = Settled(stack, remoteOutcome)
    /\ \E ts \in {LastTs(stackEvents), LastTs(stackEvents) + 1} :
           stackEvents' = Append(stackEvents, StackEvent(Len(stackEvents) + 1, ts))
    /\ UNCHANGED <<env, cmd, pc, templates, i, error, log, exitCode, polls,
                   emitted, since, refetched, pair>>

\* the pages a poll may return: at most MaxPage events of the log evs, in
\* any order, an event possibly more than once; nothing for a stack that
\* is not found
Pages(evs, s) ==
    IF s = "ABSENT" THEN {<<>>}
    ELSE UNION {{[k \in 1..n |-> evs[p[k]]] : p \in [1..n -> DOMAIN evs]} :
                    n \in 0..MaxPage}

\* a slip of Fresh: the watermark alone decides, the identifiers emitted
\* so far are not looked at
RECURSIVE Fresh_by_watermark(_, _, _)
Fresh_by_watermark(page, snc, seen) ==
    IF page = <<>> THEN <<>>
    ELSE LET e == Head(page) IN
         IF e.ts >= snc
         THEN <<e>> \o Fresh_by_watermark(Tail(page), snc, seen)
         ELSE Fresh_by_watermark(Tail(page), snc, seen)

\* the events of page that tail has to emit: timestamp at or after the
\* watermark, identifier not emitted yet, each identifier once, in the
\* order of arrival
RECURSIVE Fresh(_, _, _)
Fresh(page, snc, seen) ==
    IF page = <<>> THEN <<>>
    ELSE LET e == Head(page) IN
         IF e.ts >= snc /\ e.id \notin seen
         THEN <<e>> \o Fresh(Tail(page), snc, seen \cup {e.id})
         ELSE Fresh(Tail(page), snc, seen)

\* e put in its place in the sorted sequence s, after the events of the
\* same timestamp
RECURSIVE Insert(_, _)
Insert(e, s) ==
    IF s = <<>> THEN <<e>>
    ELSE IF e.ts < Head(s).ts THEN <<e>> \o s
    ELSE <<Head(s)>> \o Insert(e, Tail(s))

\* s sorted by ascending timestamp, ties in the order of arrival
RECURSIVE SortByTimestamp(_)
SortByTimestamp(s) ==
    IF s = <<>> THEN <<>>
    ELSE Insert(s[Len(s)], SortByTimestamp(SubSeq(s, 1, Len(s) - 1)))

\* the identifiers of the events of s
Ids(s) == {s[k].id : k \in DOMAIN s}

\* page holds an event of identifier in seen, or an event twice
Repeats(page, seen) ==
    \/ \E k \in DOMAIN page : page[k].id \in seen
    \/ \E j, k \in DOMAIN page : j < k /\ page[j].id = page[k].id

\* stack.tail(), one poll cycle: fetch a page of events, emit the new ones
\* in the order of their timestamps, move the watermark to the latest
\* emitted timestamp, stop on a terminal status
tail_poll ==
    /\ pc = "tail"
    /\ Terminal(stack) \/ polls < MaxPolls
    /\ \E page \in Pages(stackEvents, stack) :
        LET new == SortByTimestamp(Fresh(page, since, Ids(emitted))) IN
        /\ emitted' = emitted \o new
        /\ since' = IF new = <<>> THEN since ELSE LastTs(new)
        /\ refetched' = (refetched \/ Repeats(page, Ids(emitted)))
    /\ log' = Append(log, Event("DescribeStackEvents", 0, stack, <<>>))
    /\ polls' = polls + 1
    /\ pc' = IF Terminal(stack) THEN after_stack(prog, cmd) ELSE "tail"
    /\ UNCHANGED <<env, cmd, templates, i, error, exitCode, stack, stackEvents, pair>>

\* the events command of the script: `brume.Stack(cf_config).tail()`
events ==
    /\ pc = "start"
    /\ prog = "script"
    /\ cmd = "events"
    /\ pc' = "tail"
    /\ UNCHANGED <<env, cmd, templates, i, error, log, exitCode, stack, polls, tailer, pair>>

\* what the status, outputs and parameters commands ask the stack
query_op(c) ==
    IF c = "status" THEN "DescribeStackStatus"
    ELSE IF c = "outputs" THEN "DescribeStackOutputs"
    ELSE "DescribeStackParameters"

\* a read-only command: one query of the stack, then the rendering
stack_query(c) ==
    /\ pc = "start"
    /\ prog = "cli"
    /\ cmd = c
    /\ log' = Append(log, Event(query_op(c), 0, stack, <<>>))
    /\ pc' = "done"
    /\ UNCHANGED <<env, cmd, templates, i, error, exitCode, stack, polls, tailer, pair>>

\* the status command: `ctx.stack.status()`
status == stack_query("status")

\* a slip of outputs: the handler is the one of deploy, create_or_update
\* comes before the query
outputs_after_deploy ==
    /\ pc = "start"
    /\ prog = "cli"
    /\ cmd = "outputs"
    /\ stack_call(IF stack = "ABSENT" THEN "CreateStack" ELSE "UpdateStack",
                  <<Event("DescribeStackStatus", 0, stack, <<>>)>>)

\* the outputs command: `ctx.stack.outputs()` and the rendering
outputs == stack_query("outputs")

\* the parameters command: `ctx.stack.params()` and the rendering
parameters == stack_query("parameters")

\* the cli's deploy, `ctx.stack.outputs()`
deploy_outputs ==
    /\ pc = "outputs"
    /\ log' = Append(log, Event("DescribeStackOutputs", 0, stack, <<>>))
    /\ pc' = "done"
    /\ UNCHANGED <<env, cmd, templates, i, error, exitCode, stack, polls, tailer, pair>>

Next ==
    \/ vau_collect
    \/ vau_validate
    \/ vau_exit
    \/ vau_upload
    \/ vau_process_assets
    \/ validate_collect
    \/ validate_step
    \/ validate_exit
    \/ upload_process_assets
    \/ upload_step
    \/ upload_return
    \/ stack_create
    \/ stack_update
    \/ stack_create_or_update
    \/ stack_delete
    \/ remote_progress
    \/ tail_poll
    \/ deploy_outputs
    \/ events
    \/ status
    \/ outputs
    \/ parameters

Spec == Init /\ [][Next]_vars

\* ---------------------------------------------------------------------
\* Two runs side by side
\* ---------------------------------------------------------------------
\* Once a deploy is over, the command that create_or_update stands for
\* (create if the stack was absent, update if it was present) is run from
\* the same initial state, in the same environment.
side_by_side ==
    /\ pc = "done"
    /\ phase = 1
    /\ cmd = "deploy"
    /\ phase' = 2
    /\ prevLog' = log
    /\ prevStack' = stack
    /\ cmd' = IF stack0 = "ABSENT" THEN "create" ELSE "update"
    /\ pc' = "start"
    /\ templates' = <<>>
    /\ i' = 1
    /\ error' = FALSE
    /\ log' = <<>>
    /\ exitCode' = 0
    /\ stack' = stack0
    /\ polls' = 0
    /\ stackEvents' = InitialEvents(stack0)
    /\ emitted' = <<>>
    /\ since' = 0
    /\ refetched' = FALSE
    /\ UNCHANGED env

NextPair == Next \/ side_by_side

SpecPair == Init /\ [][NextPair]_vars

\* tail is a loop that sleeps and polls again: it is not left before it
\* ends by itself, and a command that is not over makes its next call
SpecFair == Spec /\ WF_vars(tail_poll) /\ WF_vars(deploy_outputs)

\* ---------------------------------------------------------------------
\* Reading the log
\* ---------------------------------------------------------------------
Positions(ops) == {k \in DOMAIN log : log[k].op \in ops}
Calls(l, ops) == SelectSeq(l, LAMBDA e : e.op \in ops)
TransitionOps == {"CreateStack", "UpdateStack", "DeleteStack"}
PreparationOps == {"validate", "upload", "bucket_exists", "send_assets"}

\* validate() returned false for a template
ValidateReturnedFalse == \E k \in Positions({"validate"}) : log[k].res = "invalid"
\* a template that collect_templates returned is invalid
InvalidDiscovered == \E k \in DOMAIN templates : ~files[templates[k]]
\* an upload() call raised
UploadRaised == \E k \in Positions({"upload"}) : log[k].res = "error"
\* a transition call raised
TransitionRaised == \E k \in Positions(TransitionOps) : log[k].res = "error"
\* the number of calls of op about template t
NumCalls(op, t) == Cardinality({k \in Positions({op}) : log[k].t = t})

\* ---------------------------------------------------------------------
\* C1: validate_and_upload uploads all the templates or none.  Once
\* validate() has returned false for a template, the run holds no upload()
\* call; when every template is valid, and no upload() call raised, the run
\* past the upload loop holds exactly one upload() call per discovered
\* template.
\* ---------------------------------------------------------------------
C1_AllOrNone ==
    calls_validate_and_upload(prog, cmd) =>
        /\ (ValidateReturnedFalse \/ InvalidDiscovered) => Positions({"upload"}) = {}
        /\ (/\ pc \notin {"start", "vau_validate", "vau_upload"}
            /\ ~ValidateReturnedFalse
            /\ ~UploadRaised)
           => \A t \in DOMAIN files : NumCalls("upload", t) = 1

C1_Witness ==
    /\ prog = "cli"
    /\ cmd = "create"
    /\ pc = "done"
    /\ files = <<TRUE, FALSE>>
    /\ Len(Calls(log, {"validate"})) = 2
    /\ Positions({"upload"}) = {}
    /\ exitCode = 1

\* ---------------------------------------------------------------------
\* C2: in create, update and deploy, an invalid discovered template means
\* that the run issues no CreateStack or UpdateStack call, publishes no
\* asset and leaves the remote stack as it was.
\* ---------------------------------------------------------------------
C2_InvalidNeverMutates ==
    (cmd \in {"create", "update", "deploy"} /\ InvalidDiscovered) =>
        /\ Positions({"CreateStack", "UpdateStack"}) = {}
        /\ Positions({"bucket_exists", "send_assets"}) = {}
        /\ stack = stack0

C2_Witness ==
    /\ prog = "cli"
    /\ cmd = "deploy"
    /\ pc = "done"
    /\ InvalidDiscovered
    /\ hasAssets
    /\ bucket
    /\ exitCode = 1
    /\ stack0 = "ABSENT"

\* ---------------------------------------------------------------------
\* C3: in create, update and deploy, no CreateStack or UpdateStack call
\* follows an upload() call that failed or a send_assets call that failed.
\* ---------------------------------------------------------------------
C3_FailureAbortsBeforeTransition ==
    cmd \in {"create", "update", "deploy"} =>
        \A j \in DOMAIN log, k \in Positions({"CreateStack", "UpdateStack"}) :
            (/\ j < k
             /\ log[j].op \in {"upload", "send_assets"})
            => log[j].res = "ok"
\* ---------------------------------------------------------------------
\* C4: in create and update the calls come in this order: the template
\* validations, the template uploads, the bucket probe, the asset
\* transfer, the CreateStack or UpdateStack call.  A run of the cli that
\* ends well has validated and uploaded every template, has probed the
\* bucket if the configuration has assets, and has made the remote call.
\* ---------------------------------------------------------------------
Rank(e) ==
    IF e.op = "validate" THEN 1
    ELSE IF e.op = "upload" THEN 2
    ELSE IF e.op = "bucket_exists" THEN 3
    ELSE IF e.op = "send_assets" THEN 4
    ELSE 5

C4_StepsInOrder ==
    cmd \in {"create", "update"} =>
        /\ \A j, k \in Positions(PreparationOps \cup {"CreateStack", "UpdateStack"}) :
               j < k => Rank(log[j]) <= Rank(log[k])
        /\ (prog = "cli" /\ pc = "done" /\ exitCode = 0) =>
               /\ \A t \in DOMAIN files :
                      NumCalls("validate", t) = 1 /\ NumCalls("upload", t) = 1
               /\ hasAssets => Positions({"bucket_exists"}) # {}
               /\ (hasAssets /\ bucket) => Positions({"send_assets"}) # {}
               /\ Positions({"CreateStack", "UpdateStack"}) # {}

C4_Witness ==
    /\ prog = "cli"
    /\ cmd = "create"
    /\ pc = "done"
    /\ exitCode = 0
    /\ Len(files) = 2
    /\ Positions({"send_assets"}) # {}
    /\ Positions({"CreateStack"}) # {}
    /\ stack = "CREATE_COMPLETE"

\* ---------------------------------------------------------------------
\* C5: a batch is validated whole: once the validation loop of the
\* validate command or of validate_and_upload is over, also by the abort
\* that follows it, every discovered template has been validated exactly
\* once, whatever the validity of the templates before it.
\* ---------------------------------------------------------------------
C5_EveryTemplateValidated ==
    /\ \A t \in DOMAIN files : NumCalls("validate", t) <= 1
    /\ (prog = "cli" /\ cmd = "validate" /\ pc = "done") =>
           /\ \A t \in DOMAIN files : NumCalls("validate", t) = 1
           /\ Len(log) = Len(files)
    /\ (calls_validate_and_upload(prog, cmd) /\ pc \notin {"start", "vau_validate"}) =>
           /\ \A t \in DOMAIN files : NumCalls("validate", t) = 1
           /\ Len(Calls(log, {"validate"})) = Len(files)

C5_Witness ==
    /\ prog = "cli"
    /\ cmd = "validate"
    /\ pc = "done"
    /\ files = <<FALSE, TRUE>>
    /\ Len(Calls(log, {"validate"})) = 2
    /\ exitCode = 1

\* ---------------------------------------------------------------------
\* C6: when bucket_exists answers false, process_assets starts no
\* transfer and raises nothing: create, update and deploy go on to their
\* remote call, which is the next call of the run, and the upload command
\* goes on to its uploads.  When it answers true, the next call is
\* send_assets from the local path to the bucket and path of the
\* configuration.
\* ---------------------------------------------------------------------
C6_MissingBucketIsNoOp ==
    \A k \in Positions({"bucket_exists"}) :
        /\ log[k].arg = <<assets_config.s3_bucket>>
        /\ log[k].res = "false" =>
               /\ Positions({"send_assets"}) = {}
               /\ calls_validate_and_upload(prog, cmd) =>
                      /\ pc \in {"transition", "tail", "outputs", "done"}
                      /\ pc # "transition" =>
                             /\ k < Len(log)
                             /\ log[k + 1].op \in {"CreateStack", "UpdateStack", "DescribeStackStatus"}
               /\ (cmd = "upload" /\ pc = "done" /\ ~UploadRaised) =>
                      /\ exitCode = 0
                      /\ \A t \in DOMAIN files : NumCalls("upload", t) = 1
        /\ log[k].res = "true" =>
               /\ k < Len(log)
               /\ log[k + 1].op = "send_assets"
               /\ log[k + 1].arg = <<assets_config.local_path, assets_config.s3_bucket,
                                     assets_config.s3_path>>

C6_Witness ==
    /\ prog = "cli"
    /\ cmd = "create"
    /\ pc = "done"
    /\ hasAssets
    /\ ~bucket
    /\ Positions({"bucket_exists"}) # {}
    /\ Positions({"CreateStack"}) # {}
    /\ exitCode = 0
\* ---------------------------------------------------------------------
\* C7: in create, update, deploy and upload, an upload() call comes only
\* after every discovered template has been validated and found valid in
\* the same run.
\* ---------------------------------------------------------------------
C7_ValidatedBeforeUpload ==
    cmd \in {"create", "update", "deploy", "upload"} =>
        \A k \in Positions({"upload"}) :
            \A t \in DOMAIN files :
                \E j \in Positions({"validate"}) :
                    j < k /\ log[j].t = t /\ log[j].res = "valid"

\* ---------------------------------------------------------------------
\* C8: deploy and the command create_or_update stands for (create when
\* the stack is absent, update when it is present), run from the same
\* initial state in the same environment, issue the same sequence of
\* validate, upload, bucket probe, asset transfer and transition calls and
\* leave the same remote stack status.
\* ---------------------------------------------------------------------
C8_DeployIsCreateOrUpdate ==
    (phase = 2 /\ pc = "done") =>
        /\ cmd = (IF stack0 = "ABSENT" THEN "create" ELSE "update")
        /\ Calls(log, PreparationOps \cup TransitionOps)
               = Calls(prevLog, PreparationOps \cup TransitionOps)
        /\ stack = prevStack

C8_Witness ==
    /\ phase = 2
    /\ pc = "done"
    /\ prog = "cli"
    /\ cmd = "update"
    /\ Len(files) = 2
    /\ Positions({"UpdateStack"}) # {}
    /\ Len(Calls(prevLog, {"upload"})) = 2
    /\ stack = "UPDATE_COMPLETE"

\* ---------------------------------------------------------------------
\* C9: a command ends with status 1 if and only if validate() returned
\* false for a template or a remote call raised, and with status 0 otherwise.  The
\* validate command ends with 1 if and only if a template on disk is
\* invalid; validate_and_upload leaves by exit(1), before any upload and
\* any call of the stack, if and only if a template on disk is invalid.
\* ---------------------------------------------------------------------
VauExited ==
    /\ pc = "done"
    /\ exitCode = 1
    /\ Positions({"upload", "bucket_exists", "send_assets", "DescribeStackStatus"}
                 \cup TransitionOps) = {}

C9_ExitCode ==
    pc = "done" =>
        /\ exitCode \in {0, 1}
        /\ exitCode = 1 <=> (ValidateReturnedFalse \/ UploadRaised \/ TransitionRaised)
        /\ (prog = "cli" /\ cmd = "validate") =>
               (exitCode = 1 <=> \E t \in DOMAIN files : ~files[t])
        /\ calls_validate_and_upload(prog, cmd) =>
               (VauExited <=> \E t \in DOMAIN files : ~files[t])

C9_Witness ==
    /\ prog = "cli"
    /\ cmd = "validate"
    /\ pc = "done"
    /\ files = <<TRUE, FALSE>>
    /\ exitCode = 1

\* ---------------------------------------------------------------------
\* C10: a CreateStack, UpdateStack or DeleteStack call that fails is the
\* last call of the run: no event poll follows it, the command ends with
\* status 1 and the remote stack is as it was.
\* ---------------------------------------------------------------------
C10_FailedCallSkipsTail ==
    \A j \in Positions(TransitionOps) :
        log[j].res = "error" =>
            /\ \A k \in Positions({"DescribeStackEvents"}) : k < j
            /\ j = Len(log)
            /\ pc = "done"
            /\ exitCode = 1
            /\ stack = stack0

C10_Witness ==
    /\ prog = "script"
    /\ cmd = "create"
    /\ stack0 = "CREATE_COMPLETE"
    /\ pc = "done"
    /\ exitCode = 1
    /\ Len(log) = 1
    /\ log[1].op = "CreateStack"
    /\ log[1].res = "error"
\* ---------------------------------------------------------------------
\* C11: the status, outputs and parameters commands make one call, a read
\* query of the stack, and nothing else: no template validation or upload,
\* no bucket probe or asset transfer, no CreateStack, UpdateStack or
\* DeleteStack call, no event poll; the remote stack stays as it was.
\* ---------------------------------------------------------------------
C11_ReadOnlyCommands ==
    cmd \in {"status", "outputs", "parameters"} =>
        /\ Positions(PreparationOps \cup TransitionOps \cup {"DescribeStackEvents"}) = {}
        /\ Len(log) <= 1
        /\ pc = "done" =>
               /\ Len(log) = 1
               /\ log[1].op = query_op(cmd)
               /\ log[1].res = stack0
               /\ exitCode = 0
        /\ stack = stack0
        /\ stackEvents = InitialEvents(stack0)

C11_Witness ==
    /\ prog = "cli"
    /\ cmd = "outputs"
    /\ pc = "done"
    /\ stack0 = "CREATE_COMPLETE"
    /\ log = <<Event("DescribeStackOutputs", 0, "CREATE_COMPLETE", <<>>)>>
\* ---------------------------------------------------------------------
\* C12: tail never emits an event identifier twice, whatever pages the
\* polls return (the same events again, an event twice in a page, late
\* events), and the emitted events come in non-decreasing timestamp; they
\* are events of the stack, and the watermark is the latest emitted
\* timestamp.
\* ---------------------------------------------------------------------
C12_NoEventTwiceInOrder ==
    /\ \A j, k \in DOMAIN emitted :
           j < k => (emitted[j].id # emitted[k].id /\ emitted[j].ts <= emitted[k].ts)
    /\ \A k \in DOMAIN emitted : \E n \in DOMAIN stackEvents : emitted[k] = stackEvents[n]
    /\ since = LastTs(emitted)

C12_Witness ==
    /\ prog = "script"
    /\ cmd = "update"
    /\ pc = "done"
    /\ Len(emitted) = 3
    /\ emitted[2].ts = emitted[3].ts
    /\ refetched
    /\ polls >= 2

\* ---------------------------------------------------------------------
\* C13: a poll that finds the stack in a terminal status is the last poll
\* and ends the tail, and a tail whose stack is in a terminal status does
\* end.  When the stack is absent on a delete, the tail makes no poll
\* after the one that finds the stack absent, and the command succeeds.
\* ---------------------------------------------------------------------
PollsOf(l) == {k \in DOMAIN l : l[k].op = "DescribeStackEvents"}

C13_Bounded ==
    /\ \A k \in PollsOf(log) :
           ~InProgress(log[k].res) =>
               /\ pc # "tail"
               /\ \A j \in PollsOf(log) : j <= k
    /\ (cmd = "delete" /\ stack0 = "ABSENT") =>
           /\ Cardinality(PollsOf(log)) <= 1
           /\ polls <= 1
           /\ stack = "ABSENT"
           /\ emitted = <<>>
           /\ (pc = "done" /\ ~TransitionRaised) =>
                  (Cardinality(PollsOf(log)) = 1 /\ exitCode = 0)

C13_TailTerminates ==
    /\ []C13_Bounded
    /\ (pc = "tail" /\ ~InProgress(stack)) ~> (pc = "done")

C13_Witness ==
    /\ prog = "script"
    /\ cmd = "delete"
    /\ stack0 = "ABSENT"
    /\ pc = "done"
    /\ exitCode = 0
    /\ Len(log) = 2
    /\ log[1].op = "DeleteStack"
    /\ log[2] = Event("DescribeStackEvents", 0, "ABSENT", <<>>)
\* ---------------------------------------------------------------------
\* C14: when the remote service answers UpdateStack with "no updates to
\* perform", update (and the update of deploy) is a success: the exit
\* status is 0 and the remote stack, its event log included, is as it was.
\* ---------------------------------------------------------------------
NoUpdatesAnswered == \E k \in Positions({"UpdateStack"}) : log[k].res = "noupdates"

C14_NoUpdatesIsSuccess ==
    NoUpdatesAnswered =>
        /\ cmd \in {"update", "deploy"}
        /\ exitCode = 0
        /\ stack = stack0
        /\ stackEvents = InitialEvents(stack0)
        /\ ~TransitionRaised

C14_Witness ==
    /\ prog = "cli"
    /\ cmd = "update"
    /\ pc = "done"
    /\ NoUpdatesAnswered
    /\ exitCode = 0
    /\ Len(files) = 2
    /\ stack = "CREATE_COMPLETE"

\* ---------------------------------------------------------------------
\* C15: delete makes no local preparation: no template is collected,
\* validated or uploaded, no bucket is probed and no asset transferred,
\* whatever the templates on disk; its first call is DeleteStack.
\* ---------------------------------------------------------------------
C15_DeleteWithoutPreparation ==
    cmd = "delete" =>
        /\ templates = <<>>
        /\ Positions(PreparationOps) = {}
        /\ log # <<>> => log[1].op = "DeleteStack"
        /\ pc = "done" => log # <<>>

C15_Witness ==
    /\ prog = "cli"
    /\ cmd = "delete"
    /\ pc = "done"
    /\ files = <<FALSE, TRUE>>
    /\ hasAssets
    /\ stack0 = "CREATE_COMPLETE"
    /\ stack = "ABSENT"
    /\ log[1] = Event("DeleteStack", 0, "ok", <<>>)

\* ---------------------------------------------------------------------
\* C16: without an assets section in the configuration no bucket is
\* probed and no asset transferred, and the command goes on: create,
\* update and deploy, once the uploads are done, make their remote call,
\* and the upload command uploads its templates.
\* ---------------------------------------------------------------------
C16_NoAssetsSection ==
    ~hasAssets =>
        /\ Positions({"bucket_exists", "send_assets"}) = {}
        /\ (calls_validate_and_upload(prog, cmd) /\ pc = "done"
                /\ ~ValidateReturnedFalse /\ ~UploadRaised) =>
               Positions({"CreateStack", "UpdateStack"}) # {}
        /\ (cmd = "upload" /\ pc = "done" /\ ~UploadRaised) =>
               /\ exitCode = 0
               /\ \A t \in DOMAIN files : NumCalls("upload", t) = 1

C16_Witness ==
    /\ prog = "cli"
    /\ cmd = "create"
    /\ pc = "done"
    /\ ~hasAssets
    /\ bucket
    /\ Len(files) = 1
    /\ NumCalls("upload", 1) = 1
    /\ Positions({"CreateStack"}) # {}
    /\ exitCode = 0

\* ---------------------------------------------------------------------
\* C17: when no template file is found, validate_and_upload makes no
\* validate and no upload call and does not exit: create, update and
\* deploy go on to the asset publication and to their remote call.
\* ---------------------------------------------------------------------
C17_NoTemplateFound ==
    (calls_validate_and_upload(prog, cmd) /\ files = <<>>) =>
        /\ templates = <<>>
        /\ ~error
        /\ Positions({"validate", "upload"}) = {}
        /\ pc = "done" =>
               /\ Positions({"CreateStack", "UpdateStack"}) # {}
               /\ hasAssets => Positions({"bucket_exists"}) # {}
               /\ (hasAssets /\ bucket) => Positions({"send_assets"}) # {}
               /\ exitCode = 1 => TransitionRaised

C17_Witness ==
    /\ prog = "cli"
    /\ cmd = "deploy"
    /\ pc = "done"
    /\ files = <<>>
    /\ hasAssets
    /\ bucket
    /\ Positions({"send_assets"}) # {}
    /\ Positions({"CreateStack"}) # {}
    /\ exitCode = 0

====
